---- MODULE Spec2Model ----
(***************************************************************************)
(* Model of deeplio/datasets/kitti.py: the KittiRawData recording session  *)
(* (timestamps, windowed data assembly in get_data) and the Kitti dataset  *)
(* (bins built by __init__, __len__, __getitem__).                         *)
(*                                                                         *)
(* Python lists and numpy arrays are 0-based; they are modelled as TLA+    *)
(* sequences and read through At(arr, i) == arr[i + 1], so every index     *)
(* value in the model is the index value of the program.                   *)
(***************************************************************************)
EXTENDS Integers, Sequences, FiniteSets, TLC

\* ---- bounds of the model ------------------------------------------------
MaxDrives == 3      \* drives of a dataset with regularly sampled drives
MaxLen == 4         \* scans of a regularly sampled drive
MaxSeqSize == 3     \* cfg['sequence-size']
MaxTime == 3        \* timestamps of a freely sampled drive are in 0..MaxTime
MaxScans == 3       \* scans of a freely sampled drive
MaxImu == 3         \* inertial samples of a freely sampled drive

VARIABLES
    seq_size,           \* Kitti.seq_size
    dataset,            \* Kitti.dataset: the KittiRawData objects, in order
    length_each_drive,  \* Kitti.length_each_drive
    bins,               \* Kitti.bins: <<bin_start, bin_end>> per drive
    length,             \* Kitti.length
    op,                 \* the last call: "none", "len" or "getitem"
    index,              \* __getitem__: the argument of the last call
    idx,                \* __getitem__: local idx when the bin loop ended
    num_drive,          \* __getitem__: local num_drive when the bin loop ended
    indices,            \* get_data: local indices of the last call
    ret,                \* outcome of the last call (returned value or exception)
    printed             \* lines the last call wrote to stdout

vars == <<seq_size, dataset, length_each_drive, bins, length,
          op, index, idx, num_drive, indices, ret, printed>>

\* numpy / list indexing, 0-based
At(arr, i) == arr[i + 1]

\* ---- KittiRawData --------------------------------------------------------

\* KittiRawData.__init__: the sorted file lists and the two timestamp series
\* of drive `drive`; tv and ti are the parsed lines of the timestamp files.
KittiRawData(drive, tv, ti) ==
    [drive |-> drive,
     velo_files |-> [i \in 1..Len(tv) |-> [drive |-> drive, frame |-> i - 1]],
     oxts_files |-> [i \in 1..Len(ti) |-> [drive |-> drive, frame |-> i - 1]],
     timestamps_velo |-> tv,
     timestamps_imu |-> ti]

\* KittiRawData.__len__
KittiRawData_len(ds) == Len(ds.velo_files)

\* KittiRawData.get_velo_image: the range image of the scan file at idx
get_velo_image(ds, i) == [image_of |-> At(ds.velo_files, i)]

\* KittiRawData._load_oxt_lazy: packet and pose of the oxts file at index
load_oxt_lazy(ds, i) ==
    [packet |-> [packet_of |-> At(ds.oxts_files, i)],
     T_w_imu |-> [pose_of |-> At(ds.oxts_files, i)]]

\* The mask with the start of the interval excluded.
mask_lower_exclusive(ts, t0, t1) ==
    [i \in 1..Len(ts) |-> (ts[i] > t0) /\ (ts[i] < t1)]

\* The mask with the stop of the interval included.
mask_upper_inclusive(ts, t0, t1) ==
    [i \in 1..Len(ts) |-> (ts[i] >= t0) /\ (ts[i] <= t1)]

\* (timestamps_imu >= velo_start_ts) & (timestamps_imu < velo_stop_ts)
mask(ts, t0, t1) ==
    [i \in 1..Len(ts) |-> (ts[i] >= t0) /\ (ts[i] < t1)]

\* np.argwhere(mask).flatten(): the 0-based positions where mask is true,
\* found by one pass over the first n entries
RECURSIVE argwhere_upto(_, _)
argwhere_upto(m, n) ==
    IF n = 0 THEN <<>>
    ELSE LET r == argwhere_upto(m, n - 1)
         IN  IF m[n] THEN Append(r, n - 1) ELSE r

argwhere(m) == argwhere_upto(m, Len(m))

NoImuWarning == "Warning: No imu data found"

\* The result of get_data when both branches of the if build ground-truth:
\* the empty branch leaves the flat list [0.] * 6 and an empty pose list.
get_data_gt_initialised(ds, start_index, seq_len) ==
    LET velo_start_ts == At(ds.timestamps_velo, start_index)
        velo_stop_ts == At(ds.timestamps_velo, start_index + seq_len - 1)
        images == [k \in 1..seq_len |-> get_velo_image(ds, start_index + k - 1)]
        sel == argwhere(mask(ds.timestamps_imu, velo_start_ts, velo_stop_ts))
        otxs == [k \in 1..Len(sel) |-> load_oxt_lazy(ds, sel[k])]
    IN  IF Len(sel) = 0
        THEN [kind |-> "data", images |-> images,
              imu |-> <<0, 0, 0, 0, 0, 0>>, gt |-> <<>>,
              indices |-> sel, printed |-> <<NoImuWarning>>]
        ELSE [kind |-> "data", images |-> images,
              imu |-> [k \in 1..Len(sel) |-> otxs[k].packet],
              gt |-> [k \in 1..Len(sel) |-> otxs[k].T_w_imu],
              indices |-> sel, printed |-> <<>>]

\* The result of get_data when the images are read from start_index + 1 on
\* (the last one wraps to the first scan of the window).
get_data_images_shifted(ds, start_index, seq_len) ==
    LET velo_start_ts == At(ds.timestamps_velo, start_index)
        velo_stop_ts == At(ds.timestamps_velo, start_index + seq_len - 1)
        images == [k \in 1..seq_len |->
                      get_velo_image(ds, start_index + (k % seq_len))]
        sel == argwhere(mask(ds.timestamps_imu, velo_start_ts, velo_stop_ts))
        otxs == [k \in 1..Len(sel) |-> load_oxt_lazy(ds, sel[k])]
    IN  IF Len(sel) = 0
        THEN [kind |-> "raise", exc |-> "UnboundLocalError",
              indices |-> sel, printed |-> <<NoImuWarning>>]
        ELSE [kind |-> "data", images |-> images,
              imu |-> [k \in 1..Len(sel) |-> otxs[k].packet],
              gt |-> [k \in 1..Len(sel) |-> otxs[k].T_w_imu],
              indices |-> sel, printed |-> <<>>]

\* KittiRawData.get_data(start_index, length).  When no inertial timestamp is
\* selected the function prints the warning, sets imu_values = [0.] * 6 and
\* then reads the local gt, which only the else branch assigns: building the
\* result dict raises UnboundLocalError and nothing is returned.
get_data(ds, start_index, seq_len) ==
    LET velo_start_ts == At(ds.timestamps_velo, start_index)
        velo_stop_ts == At(ds.timestamps_velo, start_index + seq_len - 1)
        images == [k \in 1..seq_len |-> get_velo_image(ds, start_index + k - 1)]
        sel == argwhere(mask(ds.timestamps_imu, velo_start_ts, velo_stop_ts))
        imu_ts == [k \in 1..Len(sel) |-> At(ds.timestamps_imu, sel[k])]
        otxs == [k \in 1..Len(sel) |-> load_oxt_lazy(ds, sel[k])]
    IN  IF Len(imu_ts) = 0
        THEN [kind |-> "raise", exc |-> "UnboundLocalError",
              indices |-> sel, printed |-> <<NoImuWarning>>]
        ELSE [kind |-> "data", images |-> images,
              imu |-> [k \in 1..Len(sel) |-> otxs[k].packet],
              gt |-> [k \in 1..Len(sel) |-> otxs[k].T_w_imu],
              indices |-> sel, printed |-> <<>>]

\* ---- Kitti ---------------------------------------------------------------

\* The loop of Kitti.__init__ over the configured drives: one bin per drive,
\* bin_start = last_bin_end + 1, bin_end = bin_start + length - seq_size.
\* No drive is rejected, whatever its length.
RECURSIVE build_bins(_, _)
build_bins(drives, w) ==
    IF drives = <<>> THEN <<>>
    ELSE LET n == Len(drives)
             prev == build_bins(SubSeq(drives, 1, n - 1), w)
             last_bin_end == IF prev = <<>> THEN -1 ELSE At(prev[n - 1], 1)
             bin_start == last_bin_end + 1
             bin_end == bin_start + KittiRawData_len(drives[n]) - w
         IN  Append(prev, <<bin_start, bin_end>>)

\* The bin loop of Kitti.__getitem__: scans the bins from position k on and
\* stops at the first one that contains index; <<idx, num_drive>>.
RECURSIVE find_bin(_, _, _)
find_bin(bs, i, k) ==
    IF k >= Len(bs) THEN <<-1, -1>>
    ELSE LET bin_start == At(At(bs, k), 0)
             bin_end == At(At(bs, k), 1)
         IN  IF bin_start <= i /\ i <= bin_end
             THEN <<i - bin_start, k>>
             ELSE find_bin(bs, i, k + 1)

\* ---- configurations ------------------------------------------------------

Times == 0..MaxTime

\* the strictly increasing timestamp series of length n
IncreasingSeqs(n) ==
    {s \in [1..n -> Times] : \A i \in 1..(n - 1) : s[i] < s[i + 1]}

\* a drive recorded at a fixed rate: a scan every 2 ticks, an inertial sample
\* every tick
RegularRecording(n) ==
    [velo |-> [i \in 1..n |-> 2 * (i - 1)],
     imu |-> [j \in 1..(2 * n) |-> j - 1]]

\* datasets of 1..MaxDrives regular drives of 0..MaxLen scans each
RegularConfigs ==
    UNION {{[d \in 1..k |-> RegularRecording(lens[d])] :
               lens \in [1..k -> 0..MaxLen]} : k \in 1..MaxDrives}

\* datasets of one drive with arbitrary strictly increasing timestamps
FreeConfigs ==
    UNION {UNION {{<<[velo |-> tv, imu |-> ti]>> :
                      tv \in IncreasingSeqs(n), ti \in IncreasingSeqs(m)} :
                  n \in 0..MaxScans} : m \in 0..MaxImu}

\* the indices a caller tries: from one below 0 and below every bin to one
\* above the reported length and above every bin
Indices ==
    LET points == {0, length} \cup {b[1] : b \in {bins[k] : k \in DOMAIN bins}}
                              \cup {b[2] : b \in {bins[k] : k \in DOMAIN bins}}
        lo == CHOOSE x \in points : \A y \in points : x <= y
        hi == CHOOSE x \in points : \A y \in points : x >= y
    IN  (lo - 1)..(hi + 1)

\* Kitti.__init__ on the recordings `recs` with sequence-size w
Kitti_init(recs, w) ==
    LET ds == [d \in 1..Len(recs) |-> KittiRawData(d - 1, recs[d].velo, recs[d].imu)]
        bs == build_bins(ds, w)
    IN  /\ seq_size = w
        /\ dataset = ds
        /\ length_each_drive = [d \in 1..Len(ds) |-> KittiRawData_len(ds[d])]
        /\ bins = bs
        /\ length = At(bs[Len(bs)], 1) + 1

Init ==
    /\ \E w \in 1..MaxSeqSize :
         \/ \E recs \in RegularConfigs : Kitti_init(recs, w)
         \/ \E recs \in FreeConfigs : Kitti_init(recs, w)
    /\ op = "none"
    /\ index = 0
    /\ idx = -1
    /\ num_drive = -1
    /\ indices = <<>>
    /\ ret = [kind |-> "none"]
    /\ printed = <<>>

\* Kitti.__len__
Kitti_len ==
    /\ op' = "len"
    /\ ret' = [kind |-> "int", value |-> length]
    /\ printed' = <<>>
    /\ index' = 0
    /\ idx' = -1
    /\ num_drive' = -1
    /\ indices' = <<>>
    /\ UNCHANGED <<seq_size, dataset, length_each_drive, bins, length>>

\* Kitti.__getitem__(i)
Kitti_getitem(i) ==
    LET found == find_bin(bins, i, 0)
        data == get_data(At(dataset, found[2]), found[1], seq_size)
    IN  /\ op' = "getitem"
        /\ index' = i
        /\ idx' = found[1]
        /\ num_drive' = found[2]
        /\ IF found[1] < 0 \/ found[2] < 0
           THEN /\ printed' = <<"Error: No bins and no drive number found!">>
                /\ ret' = [kind |-> "None"]
                /\ indices' = <<>>
           ELSE /\ indices' = data.indices
                /\ IF data.kind = "raise"
                   THEN /\ printed' = data.printed
                        /\ ret' = [kind |-> "raise", exc |-> data.exc]
                   ELSE /\ printed' = data.printed \o <<"Delta-Time">>
                        /\ ret' = [kind |-> "data", images |-> data.images,
                                   imu |-> data.imu, gt |-> data.gt]
        /\ UNCHANGED <<seq_size, dataset, length_each_drive, bins, length>>

Next ==
    \/ Kitti_len
    \/ \E i \in Indices : Kitti_getitem(i)

Spec == Init /\ [][Next]_vars

\* ---- vocabulary of the properties ----------------------------------------

bin_start_of(k) == At(At(bins, k), 0)
bin_end_of(k) == At(At(bins, k), 1)

Drives == 0..(Len(dataset) - 1)

\* the drives whose bin [start, end] contains the global index g
BinsContaining(g) == {k \in Drives : bin_start_of(k) <= g /\ g <= bin_end_of(k)}

InRange(g) == 0 <= g /\ g < length

\* the last call was __getitem__ and its bin loop found a drive
Resolved == op = "getitem" /\ num_drive >= 0

\* start and stop timestamp of the window the last __getitem__ resolved to
WindowStart == At(At(dataset, num_drive).timestamps_velo, idx)
WindowStop == At(At(dataset, num_drive).timestamps_velo, idx + seq_size - 1)
WindowImu == At(dataset, num_drive).timestamps_imu

\* the positions of the inertial timestamps inside [WindowStart, WindowStop)
InWindow ==
    {i \in 0..(Len(WindowImu) - 1) :
        WindowStart <= At(WindowImu, i) /\ At(WindowImu, i) < WindowStop}

RECURSIVE SumOfFittingWindows(_)
SumOfFittingWindows(k) ==
    IF k = 0 THEN 0
    ELSE SumOfFittingWindows(k - 1) +
         (IF length_each_drive[k] >= seq_size
          THEN length_each_drive[k] - seq_size + 1
          ELSE 0)

\* ---- properties ----------------------------------------------------------

\* C1: every global index in [0, length) is resolved by __getitem__ to exactly
\* one (session, local offset): exactly one bin contains the index, the offset
\* is index - bin start, and 0 <= offset <= session length - seq_size.
C1_ResolvesToExactlyOne ==
    (op = "getitem" /\ InRange(index)) =>
        /\ Cardinality(BinsContaining(index)) = 1
        /\ num_drive \in BinsContaining(index)
        /\ idx = index - bin_start_of(num_drive)
        /\ 0 <= idx
        /\ idx <= At(length_each_drive, num_drive) - seq_size

\* C2: a constructed index never holds a session shorter than seq_size
\* (construction would have failed with SessionTooShort), and no stored bin
\* has end < start.
C2_NoShortSessionIndexed ==
    \A k \in Drives :
        /\ At(length_each_drive, k) >= seq_size
        /\ bin_start_of(k) <= bin_end_of(k)

\* C3: the bins are in session order with end = start + (N_scan - seq_size),
\* the first bin starts at 0, consecutive bins are contiguous, and no two bins
\* share a global index.
C3_BinsContiguousAndDisjoint ==
    /\ Len(bins) = Len(dataset)
    /\ \A k \in Drives :
          bin_end_of(k) = bin_start_of(k) + (KittiRawData_len(At(dataset, k)) - seq_size)
    /\ bin_start_of(0) = 0
    /\ \A k \in Drives : k + 1 \in Drives => bin_end_of(k) + 1 = bin_start_of(k + 1)
    /\ \A k \in Drives : \A m \in Drives :
          k # m => ~(\E g \in bin_start_of(k)..bin_end_of(k) :
                        bin_start_of(m) <= g /\ g <= bin_end_of(m))

\* C4: the length __len__ reports is the last bin's end + 1 and is the sum of
\* (session length - seq_size + 1) over the sessions with length >= seq_size.
C4_TotalLengthIsSum ==
    (op = "len") =>
        /\ ret.value = bin_end_of(Len(bins) - 1) + 1
        /\ ret.value = SumOfFittingWindows(Len(length_each_drive))

\* C5: __getitem__ with an index outside [0, length) fails with an error
\* raised to the caller; it returns no value, neither a sample nor None.
\* Stated for the datasets in which every session holds at least one window,
\* so that a violation does not rest on a short session.
C5_OutOfRangeRaises ==
    (/\ op = "getitem"
     /\ ~InRange(index)
     /\ \A k \in Drives : At(length_each_drive, k) >= seq_size) =>
        ret.kind = "raise"

C7_FallbackSampleReturned ==
    (Resolved /\ InWindow = {}) =>
        /\ ret.kind = "data"
        /\ ret.imu = << <<0, 0, 0, 0, 0, 0>> >>
        /\ ret.gt = <<>>
        /\ Cardinality({j \in DOMAIN printed : printed[j] = NoImuWarning}) = 1

\* C8: the selection of get_data holds exactly the positions i of the
\* inertial timestamps with start <= ts[i] < stop, ascending without
\* duplicates, as one contiguous range, and it is empty exactly when no
\* inertial timestamp lies in the interval.
C8_SelectionIsTheInterval ==
    Resolved =>
        /\ {indices[k] : k \in DOMAIN indices} = InWindow
        /\ \A k \in 1..(Len(indices) - 1) : indices[k + 1] = indices[k] + 1
        /\ Len(indices) = Cardinality(InWindow)
        /\ (indices = <<>>) <=> (InWindow = {})

C8_Witness ==
    /\ Resolved
    /\ Len(indices) = 2
    /\ \E i \in 0..(Len(WindowImu) - 1) : At(WindowImu, i) >= WindowStop
    /\ \E i \in 0..(Len(WindowImu) - 1) : At(WindowImu, i) < WindowStart

\* C9: a sample returned for a global index in [0, length) holds exactly
\* seq_size scan images: the scans offset, offset + 1, ..., offset + seq_size - 1
\* of the one session the index resolves to, in that order and all inside it.
C9_WindowInsideOneSession ==
    (op = "getitem" /\ InRange(index) /\ ret.kind = "data") =>
        \E d \in BinsContaining(index) :
            LET offset == index - bin_start_of(d)
            IN  /\ \A e \in BinsContaining(index) : d <= e
                /\ Len(ret.images) = seq_size
                /\ \A j \in 1..seq_size :
                      ret.images[j] =
                          [image_of |-> [drive |-> d, frame |-> offset + j - 1]]
                /\ 0 <= offset
                /\ offset + seq_size <= KittiRawData_len(At(dataset, d))

C9_Witness ==
    /\ op = "getitem"
    /\ InRange(index)
    /\ ret.kind = "data"
    /\ seq_size >= 2
    /\ num_drive >= 1
    /\ idx >= 1
    /\ \A k \in Drives : At(length_each_drive, k) >= seq_size

\* C10: with seq_size = 1 the start and stop timestamps of a window are the
\* same scan timestamp, so every resolved query selects no inertial sample
\* and takes the no-inertial-data branch, whatever the inertial timestamps.
C10_WindowOfOneSelectsNothing ==
    (Resolved /\ seq_size = 1) =>
        /\ WindowStart = WindowStop
        /\ indices = <<>>
        /\ printed = <<NoImuWarning>>

C10_Witness ==
    /\ Resolved
    /\ seq_size = 1
    /\ \E i \in 0..(Len(WindowImu) - 1) : At(WindowImu, i) = WindowStart
    /\ \E i \in 0..(Len(WindowImu) - 1) : At(WindowImu, i) > WindowStart

====
